---- MODULE Spec2Model ----
(***************************************************************************)
(* JSON decoding of dynamic protobuf messages (package dynamic) and the    *)
(* dynamic gRPC stub (package grpcdynamic), as found in                    *)
(* src/dynamic/grpcdynamic/stub.go.                                        *)
(*                                                                         *)
(* The input of a parse is a sequence of lexemes (the bytes of the JSON    *)
(* text cut at lexeme borders).  Texts (string payloads, number literals)  *)
(* are sequences of one-character strings, so that the conversions of      *)
(* strconv work on the characters and 64-bit literals need no 64-bit       *)
(* arithmetic.                                                             *)
(***************************************************************************)
EXTENDS Integers, Sequences, FiniteSets, TLC

VARIABLES
    md,      \* name of the message descriptor the message is bound to
    values,  \* m.values: field number -> stored value
    err,     \* the error returned by the last operation ("nil": none)
    js,      \* the input (lexemes) handed to the last unmarshal call
    doc,     \* the document js was written from (tree and trailing lexemes)
    before,  \* m.values when the last operation was called
    op,      \* the last operation
    pc,      \* "new": message under construction; otherwise the operation that ended the run
    reader,  \* the jsReader as unmarshalJson left it in the last parse
    method,  \* the method descriptor handed to the last call on the stub
    conn,    \* the operations that call did on the connection, in their order
    ctx,     \* the context that call derived: "none", "derived" or "cancelled"
    ret      \* the value and the error that call returned

vars == <<md, values, err, js, doc, before, op, pc, reader, method, conn, ctx, ret>>

\* what a call on the stub writes
stubVars == <<method, conn, ctx, ret>>

(***************************************************************************)
(* Texts                                                                   *)
(***************************************************************************)
Digits == {"0", "1", "2", "3", "4", "5", "6", "7", "8", "9"}

DigitChar == <<"0", "1", "2", "3", "4", "5", "6", "7", "8", "9">>

\* the text of a sequence of decimal digits given as numbers
Dec(ds) == [i \in DOMAIN ds |-> DigitChar[ds[i] + 1]]

Neg(t) == <<"-">> \o t

DigitVal(c) == CHOOSE d \in 0..9 : DigitChar[d + 1] = c

RECURSIVE StripZeros(_)
\* a digit text without its leading zeros ("0" for zero)
StripZeros(t) ==
    IF Len(t) > 1 /\ Head(t) = "0" THEN StripZeros(Tail(t)) ELSE t

RECURSIVE LexLess(_, _)
\* digit texts of equal length, compared digit by digit
LexLess(a, b) ==
    IF a = <<>> THEN FALSE
    ELSE IF Head(a) # Head(b) THEN DigitVal(Head(a)) < DigitVal(Head(b))
    ELSE LexLess(Tail(a), Tail(b))

\* magnitudes (digit texts without leading zeros): a < b
MagLess(a, b) ==
    \/ Len(a) < Len(b)
    \/ Len(a) = Len(b) /\ LexLess(a, b)

IsNegText(t) == t # <<>> /\ Head(t) = "-"

MagOf(t) == IF IsNegText(t) THEN Tail(t) ELSE t

\* canonical integer texts (an optional "-" and a magnitude; no "-0"): a < b
IntLess(a, b) ==
    IF IsNegText(a) /\ ~IsNegText(b) THEN TRUE
    ELSE IF ~IsNegText(a) /\ IsNegText(b) THEN FALSE
    ELSE IF IsNegText(a) THEN MagLess(Tail(b), Tail(a))
    ELSE MagLess(a, b)

AllDigits(t) == t # <<>> /\ \A i \in DOMAIN t : t[i] \in Digits

(***************************************************************************)
(* strconv                                                                 *)
(***************************************************************************)
MaxUint64Mag == Dec(<<1,8,4,4,6,7,4,4,0,7,3,7,0,9,5,5,1,6,1,5>>)
MaxInt64Mag == Dec(<<9,2,2,3,3,7,2,0,3,6,8,5,4,7,7,5,8,0,7>>)
MinInt64Mag == Dec(<<9,2,2,3,3,7,2,0,3,6,8,5,4,7,7,5,8,0,8>>)
MaxInt32 == Dec(<<2,1,4,7,4,8,3,6,4,7>>)
MinInt32 == Neg(Dec(<<2,1,4,7,4,8,3,6,4,8>>))
MaxUint32 == Dec(<<4,2,9,4,9,6,7,2,9,5>>)

\* strconv.ParseUint(s, 10, 64)
ParseUint(s) ==
    IF ~AllDigits(s) THEN [v |-> <<"0">>, err |-> "ErrSyntax"]
    ELSE IF MagLess(MaxUint64Mag, StripZeros(s)) THEN [v |-> MaxUint64Mag, err |-> "ErrRange"]
    ELSE [v |-> StripZeros(s), err |-> "nil"]

\* strconv.ParseInt after the sign: the cutoff 1<<63 on the magnitude un
ParseIntSigned(neg, un) ==
    IF un.err = "ErrSyntax" THEN [v |-> <<"0">>, err |-> "ErrSyntax"]
    ELSE IF un.err = "ErrRange" THEN
        [v |-> IF neg THEN Neg(MinInt64Mag) ELSE MaxInt64Mag, err |-> "ErrRange"]
    ELSE IF ~neg /\ MagLess(MaxInt64Mag, un.v) THEN [v |-> MaxInt64Mag, err |-> "ErrRange"]
    ELSE IF neg /\ MagLess(MinInt64Mag, un.v) THEN [v |-> Neg(MinInt64Mag), err |-> "ErrRange"]
    ELSE [v |-> IF neg /\ un.v # <<"0">> THEN Neg(un.v) ELSE un.v, err |-> "nil"]

\* strconv.ParseInt(s, 10, 64): an optional sign, then ParseUint
ParseInt(s) ==
    IF s = <<>> THEN [v |-> <<"0">>, err |-> "ErrSyntax"]
    ELSE ParseIntSigned(Head(s) = "-", ParseUint(IF Head(s) \in {"-", "+"} THEN Tail(s) ELSE s))

\* the texts strconv.ParseFloat accepts among those written here: an optional
\* sign, digits, and an optional fraction
IsFloatText(s) ==
    LET body == IF s # <<>> /\ Head(s) \in {"-", "+"} THEN Tail(s) ELSE s
        dots == {i \in DOMAIN body : body[i] = "."}
    IN  \/ AllDigits(body)
        \/ /\ Cardinality(dots) = 1
           /\ \E i \in dots :
                /\ AllDigits(SubSeq(body, 1, i - 1))
                /\ AllDigits(SubSeq(body, i + 1, Len(body)))

\* strconv.ParseFloat(s, 64): the value is kept as its normalised literal
ParseFloat(s) ==
    IF ~IsFloatText(s) THEN [v |-> <<"0">>, err |-> "ErrSyntax"]
    ELSE IF AllDigits(MagOf(s)) THEN [v |-> ParseInt(s).v, err |-> "nil"]
    ELSE [v |-> s, err |-> "nil"]

(***************************************************************************)
(* Lexemes and the tokens of encoding/json                                 *)
(***************************************************************************)
\* a lexeme of the input: a delimiter "{" "}" "[" "]" "," ":", a literal "str",
\* "num", "true", "false", "null", white space "ws", or "bad" (bytes that begin
\* no JSON value)
Lex(k) == [k |-> k, v |-> <<>>]

Str(t) == [k |-> "str", v |-> t]

Num(t) == [k |-> "num", v |-> t]

\* json.Token nil: what Token returns for the literal null, and beside an error
NilTok == Lex("null")

\* json.NewDecoder(bytes.NewReader(js))
NewDecoder(buf) ==
    [buf |-> buf, scanp |-> 1, tokenState |-> "tokenTopValue", tokenStack |-> <<>>, err |-> "nil"]

RECURSIVE SkipSpace(_, _)
SkipSpace(buf, i) ==
    IF i <= Len(buf) /\ buf[i].k = "ws" THEN SkipSpace(buf, i + 1) ELSE i

\* Decoder.peek: the next lexeme that is not white space
decPeekAt(dec, i) ==
    IF i > Len(dec.buf) THEN [dec |-> dec, c |-> NilTok, err |-> "EOF"]
    ELSE [dec |-> [dec EXCEPT !.scanp = i], c |-> dec.buf[i], err |-> "nil"]

decPeek(dec) == decPeekAt(dec, SkipSpace(dec.buf, dec.scanp))

MoreAt(p) == p.err = "nil" /\ p.c.k \notin {"]", "}"}

\* Decoder.More
More(dec) == MoreAt(decPeek(dec))

tokenValueAllowed(dec) ==
    dec.tokenState \in {"tokenTopValue", "tokenArrayStart", "tokenArrayValue", "tokenObjectValue"}

tokenValueEnd(dec) ==
    IF dec.tokenState \in {"tokenArrayStart", "tokenArrayValue"}
        THEN [dec EXCEPT !.tokenState = "tokenArrayComma"]
    ELSE IF dec.tokenState = "tokenObjectValue"
        THEN [dec EXCEPT !.tokenState = "tokenObjectComma"]
    ELSE dec

\* Decoder.tokenError: a SyntaxError that leaves the decoder where it is
tokenError(dec) == [dec |-> dec, t |-> NilTok, err |-> "SyntaxError"]

\* Decoder.Decode of one literal at dec.scanp, as Token calls it: the error
\* of an earlier failed Decode is kept in dec.err and returned again
Decode(dec, c) ==
    IF dec.err # "nil" THEN [dec |-> dec, t |-> NilTok, err |-> dec.err]
    ELSE IF c.k = "bad" THEN
        [dec |-> [dec EXCEPT !.err = "SyntaxError"], t |-> NilTok, err |-> "SyntaxError"]
    ELSE [dec |-> tokenValueEnd([dec EXCEPT !.scanp = @ + 1]), t |-> c, err |-> "nil"]

\* Token on an object key: Decode runs with tokenState set to tokenTopValue,
\* old is the state put back when it fails
DecodeKey(d, old) ==
    IF d.err # "nil" THEN [d EXCEPT !.dec.tokenState = old]
    ELSE [d EXCEPT !.dec.tokenState = "tokenObjectColon"]

popState(dec) ==
    [dec EXCEPT !.tokenState = dec.tokenStack[Len(dec.tokenStack)],
                !.tokenStack = SubSeq(dec.tokenStack, 1, Len(dec.tokenStack) - 1)]

pushState(dec, st) ==
    [dec EXCEPT !.scanp = @ + 1,
                !.tokenStack = Append(dec.tokenStack, dec.tokenState),
                !.tokenState = st]

RECURSIVE Token(_)
\* the switch of Decoder.Token on the lexeme c that dec.peek found
TokenSwitch(dec, c) ==
    CASE c.k = "[" ->
            IF ~tokenValueAllowed(dec) THEN tokenError(dec)
            ELSE [dec |-> pushState(dec, "tokenArrayStart"), t |-> c, err |-> "nil"]
      [] c.k = "]" ->
            IF dec.tokenState \notin {"tokenArrayStart", "tokenArrayComma"} THEN tokenError(dec)
            ELSE [dec |-> tokenValueEnd(popState([dec EXCEPT !.scanp = @ + 1])),
                  t |-> c, err |-> "nil"]
      [] c.k = "{" ->
            IF ~tokenValueAllowed(dec) THEN tokenError(dec)
            ELSE [dec |-> pushState(dec, "tokenObjectStart"), t |-> c, err |-> "nil"]
      [] c.k = "}" ->
            IF dec.tokenState \notin {"tokenObjectStart", "tokenObjectComma"} THEN tokenError(dec)
            ELSE [dec |-> tokenValueEnd(popState([dec EXCEPT !.scanp = @ + 1])),
                  t |-> c, err |-> "nil"]
      [] c.k = ":" ->
            IF dec.tokenState # "tokenObjectColon" THEN tokenError(dec)
            ELSE Token([dec EXCEPT !.scanp = @ + 1, !.tokenState = "tokenObjectValue"])
      [] c.k = "," ->
            IF dec.tokenState = "tokenArrayComma"
                THEN Token([dec EXCEPT !.scanp = @ + 1, !.tokenState = "tokenArrayValue"])
            ELSE IF dec.tokenState = "tokenObjectComma"
                THEN Token([dec EXCEPT !.scanp = @ + 1, !.tokenState = "tokenObjectKey"])
            ELSE tokenError(dec)
      [] c.k = "str" /\ dec.tokenState \in {"tokenObjectStart", "tokenObjectKey"} ->
            DecodeKey(Decode([dec EXCEPT !.tokenState = "tokenTopValue"], c), dec.tokenState)
      [] OTHER ->
            IF ~tokenValueAllowed(dec) THEN tokenError(dec)
            ELSE Decode(dec, c)

TokenAt(p) ==
    IF p.err # "nil" THEN [dec |-> p.dec, t |-> NilTok, err |-> p.err]
    ELSE TokenSwitch(p.dec, p.c)

\* Decoder.Token
Token(dec) == TokenAt(decPeek(dec))

(***************************************************************************)
(* jsReader                                                                *)
(*                                                                         *)
(* An operation of the reader returns a record with the reader r as the    *)
(* operation leaves it, the error err, and the token t or the value v.     *)
(* Where the code binds the result of a call and then tests it, the        *)
(* operator that makes the call hands the result to the operator that      *)
(* tests it.                                                               *)
(***************************************************************************)
\* &jsReader{ dec: json.NewDecoder(bytes.NewReader(js)) }; beside the fields
\* of the struct the reader carries the history of the parse: stores, every
\* message as the parse left it after a store or a delete; failed, whether a
\* read or an expect failed; read, the tokens r.dec.Token() returned; polled,
\* the tokens poll returned; asks, how often hasNext was evaluated; stale,
\* whether it was evaluated while a peeked token was held
NewReader(buf) ==
    [dec |-> NewDecoder(buf), current |-> NilTok, peeked |-> FALSE,
     stores |-> <<>>, failed |-> FALSE, read |-> <<>>, polled |-> <<>>,
     asks |-> 0, stale |-> FALSE]

hasNext(r) == More(r.dec)

\* the reader after an evaluation of hasNext
asked(r) == [r EXCEPT !.asks = @ + 1, !.stale = @ \/ r.peeked]

peekToken(r, tk) ==
    IF tk.err # "nil"
        THEN [r |-> [r EXCEPT !.dec = tk.dec, !.failed = TRUE], t |-> NilTok, err |-> tk.err]
    ELSE [r |-> [r EXCEPT !.dec = tk.dec, !.current = tk.t, !.peeked = TRUE,
                          !.read = Append(@, tk.t)],
          t |-> tk.t, err |-> "nil"]

peek(r) ==
    IF r.peeked THEN [r |-> r, t |-> r.current, err |-> "nil"]
    ELSE peekToken(r, Token(r.dec))

pollToken(r, tk) ==
    IF tk.err # "nil"
        THEN [r |-> [r EXCEPT !.dec = tk.dec, !.failed = TRUE], t |-> tk.t, err |-> tk.err]
    ELSE [r |-> [r EXCEPT !.dec = tk.dec, !.read = Append(@, tk.t), !.polled = Append(@, tk.t)],
          t |-> tk.t, err |-> "nil"]

\* poll that hands out the peeked token and goes on holding it
pollLeavesPeeked(r) ==
    IF r.peeked
        THEN [r |-> [r EXCEPT !.polled = Append(@, r.current)], t |-> r.current, err |-> "nil"]
    ELSE pollToken(r, Token(r.dec))

poll(r) ==
    IF r.peeked
        THEN [r |-> [r EXCEPT !.current = NilTok, !.peeked = FALSE,
                              !.polled = Append(@, r.current)],
              t |-> r.current, err |-> "nil"]
    ELSE pollToken(r, Token(r.dec))

\* the predicates handed to expect, named by what they expect
predicate(expected, t) ==
    CASE expected \in {"{", "}", "[", "]"} -> t.k = expected
      [] expected = "string" -> t.k = "str"
      [] expected = "boolean" -> t.k \in {"true", "false"}
      [] expected = "number" -> t.k \in {"str", "num"}

expectPolled(p, expected, ifNil) ==
    IF p.err # "nil" THEN [r |-> p.r, t |-> NilTok, err |-> p.err]
    ELSE IF p.t = NilTok /\ ifNil # NilTok THEN [r |-> p.r, t |-> ifNil, err |-> "nil"]
    ELSE IF ~predicate(expected, p.t)
        THEN [r |-> [p.r EXCEPT !.failed = TRUE], t |-> p.t, err |-> "BadInput"]
    ELSE [r |-> p.r, t |-> p.t, err |-> "nil"]

\* ifNil is NilTok where the code passes nil
expect(r, expected, ifNil) == expectPolled(poll(r), expected, ifNil)

beginObject(r) == expect(r, "{", NilTok)

endObject(r) == expect(r, "}", NilTok)

beginArray(r) == expect(r, "[", NilTok)

endArray(r) == expect(r, "]", NilTok)

nextStringOf(e) ==
    IF e.err # "nil" THEN [r |-> e.r, v |-> <<>>, err |-> e.err]
    ELSE [r |-> e.r, v |-> e.t.v, err |-> "nil"]

\* the text of the string token, "" beside an error
nextString(r) == nextStringOf(expect(r, "string", Str(<<>>)))

nextObjectKey(r) == nextString(r)

\* base64.StdEncoding.DecodeString on the encodings written here
Base64Decode(str) ==
    CASE str = <<>> -> [v |-> <<>>, err |-> "nil"]
      [] str = <<"aGk=">> -> [v |-> <<"h", "i">>, err |-> "nil"]
      [] OTHER -> [v |-> <<>>, err |-> "CorruptInputError"]

nextBytesOf(s) ==
    IF s.err # "nil" THEN [r |-> s.r, v |-> <<>>, err |-> s.err]
    ELSE [r |-> s.r] @@ Base64Decode(s.v)

nextBytes(r) == nextBytesOf(nextString(r))

nextBoolOf(e) ==
    IF e.err # "nil" THEN [r |-> e.r, v |-> <<"false">>, err |-> e.err]
    ELSE [r |-> e.r, v |-> <<e.t.k>>, err |-> "nil"]

nextBool(r) == nextBoolOf(expect(r, "boolean", Lex("false")))

nextNumberOf(e) ==
    IF e.err # "nil" THEN [r |-> e.r, v |-> <<>>, err |-> e.err]
    ELSE IF e.t.k \in {"num", "str"} THEN [r |-> e.r, v |-> e.t.v, err |-> "nil"]
    ELSE [r |-> e.r, v |-> <<>>, err |-> "ExpectingNumber"]

\* the text of the json.Number
nextNumber(r) == nextNumberOf(expect(r, "number", Str(<<"0">>)))

nextIntOf(n) ==
    IF n.err # "nil" THEN [r |-> n.r, v |-> <<"0">>, err |-> n.err]
    ELSE [r |-> n.r] @@ ParseInt(n.v)

nextInt(r) == nextIntOf(nextNumber(r))

nextUintOf(n) ==
    IF n.err # "nil" THEN [r |-> n.r, v |-> <<"0">>, err |-> n.err]
    ELSE [r |-> n.r] @@ ParseUint(n.v)

nextUint(r) == nextUintOf(nextNumber(r))

nextFloatOf(n) ==
    IF n.err # "nil" THEN [r |-> n.r, v |-> <<"0">>, err |-> n.err]
    ELSE [r |-> n.r] @@ ParseFloat(n.v)

nextFloat(r) == nextFloatOf(nextNumber(r))

\* [r, err] of a result
ErrOf(e) == [r |-> e.r, err |-> e.err]

\* skip that polls one token and does not descend into arrays and objects
skipPolledFlat(p) == IF p.err # "nil" THEN ErrOf(p) ELSE [r |-> p.r, err |-> "nil"]

RECURSIVE skip(_)
RECURSIVE skipArray(_)
RECURSIVE skipObject(_)

skipPolled(p) ==
    IF p.err # "nil" THEN ErrOf(p)
    ELSE IF p.t.k = "[" THEN skipArray(p.r)
    ELSE IF p.t.k = "{" THEN skipObject(p.r)
    ELSE [r |-> p.r, err |-> "nil"]

skip(r) == skipPolled(poll(r))

skipArrayElem(s) == IF s.err # "nil" THEN s ELSE skipArray(s.r)

skipArray(r) ==
    IF hasNext(r) THEN skipArrayElem(skip(asked(r)))
    ELSE ErrOf(endArray(asked(r)))

skipObjectValue(v) == IF v.err # "nil" THEN v ELSE skipObject(v.r)

skipObjectKey(k) == IF k.err # "nil" THEN k ELSE skipObjectValue(skip(k.r))

skipObject(r) ==
    IF hasNext(r) THEN skipObjectKey(skip(asked(r)))
    ELSE ErrOf(endObject(asked(r)))

(***************************************************************************)
(* Descriptors (package desc) and the message store                        *)
(***************************************************************************)
\* a FieldDescriptor; msg names the message type of a message field (the
\* entry type of a map field), oneof the field's oneof group ("" for none)
Field(name, number, type, label, msg, oneof) ==
    [name |-> <<name>>, number |-> number, type |-> type, label |-> label,
     msg |-> msg, oneof |-> oneof]

\* what FindFieldDescriptorByName returns for a name the message does not have
NoField == Field("", 0, "", "", "", "")

Scalar(name, number, type) == Field(name, number, type, "optional", "", "")

\* the message types of the file: a message with a field of every declared
\* type, a nested message, the entry messages of its map fields, and a proto2
\* message with a required field
MessageTypes ==
    [TestMessage |-> {
        Scalar("i32", 1, "TYPE_INT32"), Scalar("i64", 2, "TYPE_INT64"),
        Scalar("u32", 3, "TYPE_UINT32"), Scalar("u64", 4, "TYPE_UINT64"),
        Scalar("s32", 5, "TYPE_SINT32"), Scalar("s64", 6, "TYPE_SINT64"),
        Scalar("f32", 7, "TYPE_FIXED32"), Scalar("f64", 8, "TYPE_FIXED64"),
        Scalar("sf32", 9, "TYPE_SFIXED32"), Scalar("sf64", 10, "TYPE_SFIXED64"),
        Scalar("fl", 11, "TYPE_FLOAT"), Scalar("db", 12, "TYPE_DOUBLE"),
        Scalar("b", 13, "TYPE_BOOL"), Scalar("s", 14, "TYPE_STRING"),
        Scalar("by", 15, "TYPE_BYTES"), Scalar("e", 16, "TYPE_ENUM"),
        Field("nm", 17, "TYPE_MESSAGE", "optional", "Nested", ""),
        Field("ri", 18, "TYPE_INT32", "repeated", "", ""),
        Field("rm", 19, "TYPE_MESSAGE", "repeated", "Nested", ""),
        Field("mi", 20, "TYPE_MESSAGE", "repeated", "MiEntry", ""),
        Field("mb", 21, "TYPE_MESSAGE", "repeated", "MbEntry", ""),
        Field("ms", 22, "TYPE_MESSAGE", "repeated", "MsEntry", ""),
        Field("o1", 23, "TYPE_INT32", "optional", "", "o"),
        Field("o2", 24, "TYPE_INT32", "optional", "", "o")},
     Nested |-> {
        Scalar("x", 1, "TYPE_INT32"),
        Field("child", 2, "TYPE_MESSAGE", "optional", "Nested", "")},
     Req |-> {
        Field("id", 1, "TYPE_INT32", "required", "", ""),
        Field("child", 2, "TYPE_MESSAGE", "optional", "Req", "")},
     MiEntry |-> {Scalar("key", 1, "TYPE_INT32"), Scalar("value", 2, "TYPE_INT32")},
     MbEntry |-> {Scalar("key", 1, "TYPE_BOOL"), Scalar("value", 2, "TYPE_INT32")},
     MsEntry |-> {Scalar("key", 1, "TYPE_STRING"), Scalar("value", 2, "TYPE_INT32")}]

\* the synthetic entry messages (the map_entry option)
MapEntryTypes == {"MiEntry", "MbEntry", "MsEntry"}

\* the one enum of the file and the file's symbol table for its values
EnumTypeName == "testprotos.Enum"

Symbols == {[fqn |-> <<EnumTypeName, ".", "VALUE1">>, number |-> <<"1">>],
            [fqn |-> <<EnumTypeName, ".", "VALUE2">>, number |-> <<"2">>]}

IsRepeated(fd) == fd.label = "repeated"

IsMap(fd) == IsRepeated(fd) /\ fd.type = "TYPE_MESSAGE" /\ fd.msg \in MapEntryTypes

FindFieldDescriptorByName(mdName, name) ==
    IF \E fd \in MessageTypes[mdName] : fd.name = name
        THEN CHOOSE fd \in MessageTypes[mdName] : fd.name = name
        ELSE NoField

FindFieldByNumber(mdName, n) == CHOOSE fd \in MessageTypes[mdName] : fd.number = n

\* fd.GetFile().FindSymbol(fqn).(*desc.EnumValueDescriptor)
FindSymbol(fqn) ==
    IF \E sy \in Symbols : sy.fqn = fqn
        THEN [ok |-> TRUE, number |-> (CHOOSE sy \in Symbols : sy.fqn = fqn).number]
        ELSE [ok |-> FALSE, number |-> <<"0">>]

\* stored values: a kind and a payload
Val(k, v) == [k |-> k, v |-> v]

\* the nil interface value
Nil == Val("nil", <<>>)

IsNil(v) == v.k = "nil"

\* m.values of a message that stores nothing
NoValues == [n \in {} |-> Nil]

\* a *Message
Message(mdName, vals) == Val("message", [md |-> mdName, values |-> vals])

NewMessage(mdName) == Message(mdName, NoValues)

\* restriction of m.values to the field numbers outside S
Without(vals, S) == [n \in DOMAIN vals \ S |-> vals[n]]

\* m.internalSetField: the other members of fd's oneof are evicted
internalSetField(mdName, vals, fd, v) ==
    LET others == IF fd.oneof = "" THEN {}
                  ELSE {g.number : g \in {h \in MessageTypes[mdName] :
                                            h.oneof = fd.oneof /\ h.number # fd.number}}
        kept == Without(vals, others \cup {fd.number})
    IN  [n \in DOMAIN kept \cup {fd.number} |-> IF n = fd.number THEN v ELSE kept[n]]

\* delete(m.values, fd.GetNumber())
deleteField(vals, fd) == Without(vals, {fd.number})

RECURSIVE Validate(_, _)
RECURSIVE HoldsInvalid(_)
\* a stored value holds a message that is not valid
HoldsInvalid(v) ==
    CASE v.k = "message" -> Validate(v.v.md, v.v.values) # "nil"
      [] v.k = "slice" -> \E i \in DOMAIN v.v : HoldsInvalid(v.v[i])
      [] v.k = "map" -> \E kk \in DOMAIN v.v : HoldsInvalid(v.v[kk])
      [] OTHER -> FALSE

\* m.Validate: every required field is present, in the message and in the
\* messages it holds
Validate(mdName, vals) ==
    IF \E fd \in MessageTypes[mdName] : fd.label = "required" /\ fd.number \notin DOMAIN vals
        THEN "MissingRequiredField"
    ELSE IF \E n \in DOMAIN vals : HoldsInvalid(vals[n])
        THEN "MissingRequiredField"
    ELSE "nil"

\* the value a getter returns for a field that stores nothing
ZeroValue(fd) ==
    CASE fd.type \in {"TYPE_INT32", "TYPE_SINT32", "TYPE_SFIXED32", "TYPE_ENUM"} -> Val("int32", <<"0">>)
      [] fd.type \in {"TYPE_INT64", "TYPE_SINT64", "TYPE_SFIXED64"} -> Val("int64", <<"0">>)
      [] fd.type \in {"TYPE_UINT32", "TYPE_FIXED32"} -> Val("uint32", <<"0">>)
      [] fd.type \in {"TYPE_UINT64", "TYPE_FIXED64"} -> Val("uint64", <<"0">>)
      [] fd.type = "TYPE_BOOL" -> Val("bool", <<"false">>)
      [] fd.type = "TYPE_FLOAT" -> Val("float32", <<"0">>)
      [] fd.type = "TYPE_DOUBLE" -> Val("float64", <<"0">>)
      [] fd.type \in {"TYPE_STRING", "TYPE_BYTES"} -> Val("string", <<>>)
      [] OTHER -> Nil

\* msg.TryGetFieldByNumber(n) on a map entry message
TryGetFieldByNumber(msg, n) ==
    IF n \in DOMAIN msg.v.values THEN msg.v.values[n]
    ELSE ZeroValue(FindFieldByNumber(msg.v.md, n))

(***************************************************************************)
(* Unmarshalling                                                           *)
(***************************************************************************)
\* float32(f): the literals written here are float32 values, but for 0.1
Float32(v) ==
    IF v = <<"0", ".", "1">> THEN <<"0", ".", "1", "0", "0", "0", "0", "0", "0", "0", "1", "4", "9">>
    ELSE v

\* i > math.MaxInt32 || i < math.MinInt32
OutOfInt32(i) == IntLess(MaxInt32, i) \/ IntLess(i, MinInt32)

\* results [r, v, err]: v is Nil beside an error
Failed(r, e) == [r |-> r, v |-> Nil, err |-> e]

Ok(r, v) == [r |-> r, v |-> v, err |-> "nil"]

\* a result with its value stored as kind
Stored(x, kind) == IF x.err # "nil" THEN Failed(x.r, x.err) ELSE Ok(x.r, Val(kind, x.v))

\* a map with the entry kk -> vv put in
MapPut(mp, kk, vv) == [x \in DOMAIN mp \cup {kk} |-> IF x = kk THEN vv ELSE mp[x]]

RECURSIVE unmarshalJson(_, _)
RECURSIVE unmarshalJsonLoop(_, _)
RECURSIVE unmarshalJsField(_, _)
RECURSIVE unmarshalJsFieldMapLoop(_, _, _)
RECURSIVE unmarshalJsFieldArrayLoop(_, _, _, _)
RECURSIVE unmarshalJsFieldElement(_, _)
RECURSIVE EntriesToMap(_, _)

\* case TYPE_MESSAGE, TYPE_GROUP, after m.unmarshalJson(r)
elementMessage(u) ==
    IF u.err # "nil" THEN Failed(u.r, u.err) ELSE Ok(u.r, Val("message", u.m))

\* case TYPE_ENUM without the lookup of the token as a value name
elementEnumNumberOnly(e, i, ev) ==
    IF e.err # "nil" THEN Failed(e.r, e.err)
    ELSE IF i.err # "nil" THEN Failed(e.r, i.err)
    ELSE IF OutOfInt32(i.v) THEN Failed(e.r, "NumericOverflowError")
    ELSE Ok(e.r, Val("int32", i.v))

\* case TYPE_ENUM, after r.nextNumber(): i is e.Int64(), ev the symbol found
\* for the enum type's name, a dot and the token
elementEnum(e, i, ev) ==
    IF e.err # "nil" THEN Failed(e.r, e.err)
    ELSE IF i.err # "nil" THEN
        IF ev.ok THEN Ok(e.r, Val("int32", ev.number))
        ELSE Failed(e.r, i.err)
    ELSE IF OutOfInt32(i.v) THEN Failed(e.r, "NumericOverflowError")
    ELSE Ok(e.r, Val("int32", i.v))

\* case TYPE_INT32, TYPE_SINT32, TYPE_SFIXED32, after r.nextInt()
elementInt32(i) ==
    IF i.err # "nil" THEN Failed(i.r, i.err)
    ELSE IF OutOfInt32(i.v) THEN Failed(i.r, "NumericOverflowError")
    ELSE Ok(i.r, Val("int32", i.v))

\* case TYPE_UINT32, TYPE_FIXED32, after r.nextUint()
elementUint32(i) ==
    IF i.err # "nil" THEN Failed(i.r, i.err)
    ELSE IF MagLess(MaxUint32, i.v) THEN Failed(i.r, "NumericOverflowError")
    ELSE Ok(i.r, Val("uint32", i.v))

\* case TYPE_FLOAT, after r.nextFloat()
elementFloat(f) ==
    IF f.err # "nil" THEN Failed(f.r, f.err) ELSE Ok(f.r, Val("float32", Float32(f.v)))

elementEnumOf(e) == elementEnum(e, ParseInt(e.v), FindSymbol(<<EnumTypeName, ".">> \o e.v))

\* the switch on fd.GetType() of unmarshalJsFieldElement, at a token that is not null
unmarshalJsFieldElementSwitch(fd, r) ==
    CASE fd.type \in {"TYPE_MESSAGE", "TYPE_GROUP"} ->
            elementMessage(unmarshalJson(NewMessage(fd.msg).v, r))
      [] fd.type = "TYPE_ENUM" -> elementEnumOf(nextNumber(r))
      [] fd.type \in {"TYPE_INT32", "TYPE_SINT32", "TYPE_SFIXED32"} -> elementInt32(nextInt(r))
      [] fd.type \in {"TYPE_INT64", "TYPE_SINT64", "TYPE_SFIXED64"} -> Stored(nextInt(r), "int64")
      [] fd.type \in {"TYPE_UINT32", "TYPE_FIXED32"} -> elementUint32(nextUint(r))
      [] fd.type \in {"TYPE_UINT64", "TYPE_FIXED64"} -> Stored(nextUint(r), "uint64")
      [] fd.type = "TYPE_BOOL" -> Stored(nextBool(r), "bool")
      [] fd.type = "TYPE_FLOAT" -> elementFloat(nextFloat(r))
      [] fd.type = "TYPE_DOUBLE" -> Stored(nextFloat(r), "float64")
      [] OTHER -> Failed(r, "UnknownFieldType")

\* unmarshalJsFieldElement after r.peek()
elementPeeked(fd, p) ==
    IF p.err # "nil" THEN Failed(p.r, p.err)
    ELSE IF p.t = NilTok THEN Ok(poll(p.r).r, Nil)
    ELSE unmarshalJsFieldElementSwitch(fd, p.r)

unmarshalJsFieldElement(fd, r) == elementPeeked(fd, peek(r))

\* the map loop after the value vv of the entry with key kk
mapLoopValue(fd, mp, kk, vv) ==
    IF vv.err # "nil" THEN Failed(vv.r, vv.err)
    ELSE unmarshalJsFieldMapLoop(fd, vv.r, MapPut(mp, kk.v, vv.v))

\* the map loop after the key kk
mapLoopKey(fd, mp, kk) ==
    IF kk.err # "nil" THEN Failed(kk.r, kk.err)
    ELSE mapLoopValue(fd, mp, kk, unmarshalJsFieldElement(FindFieldByNumber(fd.msg, 2), kk.r))

\* after r.endObject() of the map branch
mapEnd(e, mp) == IF e.err # "nil" THEN Failed(e.r, e.err) ELSE Ok(e.r, Val("map", mp))

\* the loop of the map branch of unmarshalJsField, and what follows it
unmarshalJsFieldMapLoop(fd, r, mp) ==
    IF hasNext(r)
        THEN mapLoopKey(fd, mp, unmarshalJsFieldElement(FindFieldByNumber(fd.msg, 1), asked(r)))
        ELSE mapEnd(endObject(asked(r)), mp)

\* the map built from the entry messages of sl
EntriesToMap(sl, mp) ==
    IF sl = <<>> THEN mp
    ELSE EntriesToMap(Tail(sl),
            MapPut(mp, TryGetFieldByNumber(Head(sl), 1), TryGetFieldByNumber(Head(sl), 2)))

\* the array loop keeping, for a field that is not repeated, the first value
arrayLoopElemKeepsFirst(fd, sl, el) ==
    IF el.err # "nil" THEN Failed(el.r, el.err)
    ELSE unmarshalJsFieldArrayLoop(fd, el.r,
            IF ~IsNil(el.v) THEN Append(sl, el.v) ELSE sl,
            IF sl = <<>> THEN el.v ELSE Head(sl))

\* the array loop after the element el
arrayLoopElem(fd, sl, el) ==
    IF el.err # "nil" THEN Failed(el.r, el.err)
    ELSE unmarshalJsFieldArrayLoop(fd, el.r,
            IF IsRepeated(fd) /\ ~IsNil(el.v) THEN Append(sl, el.v) ELSE sl, el.v)

\* after r.endArray() of the array branch
arrayEnd(fd, e, sl, v) ==
    IF e.err # "nil" THEN Failed(e.r, e.err)
    ELSE IF IsMap(fd) THEN Ok(e.r, Val("map", EntriesToMap(sl, NoValues)))
    ELSE IF IsRepeated(fd) THEN Ok(e.r, Val("slice", sl))
    ELSE Ok(e.r, v)

\* the loop of the array branch of unmarshalJsField, and what follows it
unmarshalJsFieldArrayLoop(fd, r, sl, v) ==
    IF hasNext(r) THEN arrayLoopElem(fd, sl, unmarshalJsFieldElement(fd, asked(r)))
    ELSE arrayEnd(fd, endArray(asked(r)), sl, v)

\* the map branch after r.beginObject()
fieldMap(fd, b) ==
    IF b.err # "nil" THEN Failed(b.r, b.err) ELSE unmarshalJsFieldMapLoop(fd, b.r, NoValues)

\* the array branch after r.beginArray()
fieldArray(fd, b) ==
    IF b.err # "nil" THEN Failed(b.r, b.err) ELSE unmarshalJsFieldArrayLoop(fd, b.r, <<>>, Nil)

\* the last branch after unmarshalJsFieldElement(fd, r, er)
fieldSingle(fd, el) ==
    IF el.err # "nil" THEN Failed(el.r, el.err)
    ELSE IF IsNil(el.v) THEN Ok(el.r, Nil)
    ELSE IF IsRepeated(fd) THEN Ok(el.r, Val("slice", <<el.v>>))
    ELSE Ok(el.r, el.v)

\* unmarshalJsField after r.peek()
fieldPeeked(fd, p) ==
    IF p.err # "nil" THEN Failed(p.r, p.err)
    ELSE IF p.t = NilTok THEN Ok(poll(p.r).r, Nil)
    ELSE IF p.t.k = "{" /\ IsMap(fd) THEN fieldMap(fd, beginObject(p.r))
    ELSE IF p.t.k = "[" THEN fieldArray(fd, beginArray(p.r))
    ELSE fieldSingle(fd, unmarshalJsFieldElement(fd, p.r))

unmarshalJsField(fd, r) == fieldPeeked(fd, peek(r))

\* the loop of unmarshalJson with nothing done for a nil value
loopFieldKeepsNull(m, fd, v) ==
    IF v.err # "nil" THEN [r |-> v.r, m |-> m, err |-> v.err]
    ELSE IF ~IsNil(v.v) THEN
        unmarshalJsonLoop([m EXCEPT !.values = internalSetField(m.md, m.values, fd, v.v)], v.r)
    ELSE unmarshalJsonLoop(m, v.r)

\* the loop of unmarshalJson storing the value under its number, no member of
\* the field's oneof evicted
loopFieldPlainStore(m, fd, v) ==
    IF v.err # "nil" THEN [r |-> v.r, m |-> m, err |-> v.err]
    ELSE IF ~IsNil(v.v) THEN
        unmarshalJsonLoop([m EXCEPT !.values = MapPut(m.values, fd.number, v.v)],
                          [v.r EXCEPT !.stores = Append(@, [m EXCEPT !.values = MapPut(m.values, fd.number, v.v)])])
    ELSE unmarshalJsonLoop([m EXCEPT !.values = deleteField(m.values, fd)], v.r)

\* the loop of unmarshalJson goes on with the message as the store or the
\* delete left it
loopStored(m, r) == unmarshalJsonLoop(m, [r EXCEPT !.stores = Append(@, m)])

\* the loop of unmarshalJson after unmarshalJsField(fd, r, m.er)
loopField(m, fd, v) ==
    IF v.err # "nil" THEN [r |-> v.r, m |-> m, err |-> v.err]
    ELSE IF ~IsNil(v.v) THEN
        loopStored([m EXCEPT !.values = internalSetField(m.md, m.values, fd, v.v)], v.r)
    ELSE loopStored([m EXCEPT !.values = deleteField(m.values, fd)], v.r)

\* the loop of unmarshalJson after m.FindFieldDescriptorByName(f): the error
\* of r.skip() is not looked at
loopFound(m, f, fd) ==
    IF fd = NoField THEN unmarshalJsonLoop(m, skip(f.r).r)
    ELSE loopField(m, fd, unmarshalJsField(fd, f.r))

\* the loop of unmarshalJson ended without an error when r.nextObjectKey()
\* fails
loopKeyStops(m, f) ==
    IF f.err # "nil" THEN [r |-> f.r, m |-> m, err |-> "nil"]
    ELSE loopFound(m, f, FindFieldDescriptorByName(m.md, f.v))

\* the loop of unmarshalJson after r.nextObjectKey()
loopKey(m, f) ==
    IF f.err # "nil" THEN [r |-> f.r, m |-> m, err |-> f.err]
    ELSE loopFound(m, f, FindFieldDescriptorByName(m.md, f.v))

\* [r, m, err] after the r.endObject() of unmarshalJson
loopEnd(m, e) == [r |-> e.r, m |-> m, err |-> e.err]

\* the for r.hasNext() loop of unmarshalJson and the endObject after it;
\* m is [md, values]; the result is [r, m, err] with m as the call left it
unmarshalJsonLoop(m, r) ==
    IF hasNext(r) THEN loopKey(m, nextObjectKey(asked(r)))
    ELSE loopEnd(m, endObject(asked(r)))

\* unmarshalJson after r.beginObject()
jsonBegun(m, b) ==
    IF b.err # "nil" THEN [r |-> b.r, m |-> m, err |-> b.err]
    ELSE unmarshalJsonLoop(m, b.r)

\* unmarshalJson without the test for a nil token
jsonPeekedNoNull(m, p) ==
    IF p.err # "nil" THEN [r |-> p.r, m |-> m, err |-> p.err]
    ELSE jsonBegun(m, beginObject(p.r))

\* unmarshalJson after r.peek()
jsonPeeked(m, p) ==
    IF p.err # "nil" THEN [r |-> p.r, m |-> m, err |-> p.err]
    ELSE IF p.t = NilTok THEN [r |-> poll(p.r).r, m |-> m, err |-> "nil"]
    ELSE jsonBegun(m, beginObject(p.r))

unmarshalJson(m, r) == jsonPeeked(m, peek(r))

\* UnmarshalMergeJSON without the poll after the value
mergeParsedUnpolled(u) == [m |-> u.m, err |-> u.err, r |-> u.r]

\* UnmarshalMergeJSON after m.unmarshalJson(r): the poll that must meet io.EOF
mergeParsed(u) ==
    IF u.err # "nil" THEN [m |-> u.m, err |-> u.err, r |-> u.r]
    ELSE IF poll(u.r).err # "EOF" THEN [m |-> u.m, err |-> "SuperfluousData", r |-> u.r]
    ELSE [m |-> u.m, err |-> "nil", r |-> u.r]

\* m is [md, values]; the result is [m, err, r], r the reader unmarshalJson left
UnmarshalMergeJSON(m, input) == mergeParsed(unmarshalJson(m, NewReader(input)))

\* m.Reset()
Reset(m) == [m EXCEPT !.values = NoValues]

\* UnmarshalJSON after m.UnmarshalMergeJSON(js)
mergedValidate(u) ==
    IF u.err # "nil" THEN u
    ELSE [u EXCEPT !.err = Validate(u.m.md, u.m.values)]

UnmarshalJSON(m, input) == mergedValidate(UnmarshalMergeJSON(Reset(m), input))

\* marshalJSON writes nothing to b and returns nil
marshalJSON(m, b, indent) == [b |-> b, err |-> "nil"]

\* MarshalJSON after m.marshalJSON(&b, false)
marshalled(w) == IF w.err # "nil" THEN [b |-> <<>>, err |-> w.err] ELSE w

\* var b bytes.Buffer holds nothing
MarshalJSON(m) == marshalled(marshalJSON(m, <<>>, FALSE))

(***************************************************************************)
(* Documents: JSON values as trees, and their text                         *)
(***************************************************************************)
\* a JSON value is a literal, an array of values, or an object of members (values
\* that carry their key)
Leaf(lex) == [k |-> lex.k, v |-> lex.v, key |-> <<>>, c |-> <<>>]

Arr(elems) == [k |-> "arr", v |-> <<>>, key |-> <<>>, c |-> elems]

Obj(members) == [k |-> "obj", v |-> <<>>, key |-> <<>>, c |-> members]

Mem(key, val) == [val EXCEPT !.key = <<key>>]

RECURSIVE Render(_)
RECURSIVE RenderElems(_)
RECURSIVE RenderMembers(_)
\* the lexemes of a value
Render(t) ==
    CASE t.k = "arr" -> <<Lex("[")>> \o RenderElems(t.c) \o <<Lex("]")>>
      [] t.k = "obj" -> <<Lex("{")>> \o RenderMembers(t.c) \o <<Lex("}")>>
      [] OTHER -> <<[k |-> t.k, v |-> t.v]>>

RenderElems(es) ==
    IF es = <<>> THEN <<>>
    ELSE IF Len(es) = 1 THEN Render(es[1])
    ELSE Render(es[1]) \o <<Lex(",")>> \o RenderElems(Tail(es))

RenderMembers(ms) ==
    IF ms = <<>> THEN <<>>
    ELSE LET one == <<Str(ms[1].key), Lex(":")>> \o Render(ms[1])
         IN  IF Len(ms) = 1 THEN one ELSE one \o <<Lex(",")>> \o RenderMembers(Tail(ms))

\* a document: a top-level value and the lexemes that follow it
Doc(tree, trail) == [tree |-> tree, trail |-> trail]

NoDoc == Doc(Leaf(Lex("none")), <<>>)

\* the lexemes of a document; a document without a tree is its trail alone
Input(d) == IF d.tree.k = "none" THEN d.trail ELSE Render(d.tree) \o d.trail

SeqsUpTo(S, n) == UNION {[1..k -> S] : k \in 0..n}

\* bounds of the documents
MaxArrayLen == 3
MaxMembers == 3
MaxSkipDepth == 2
MaxMapEntries == 2
MaxTrail == 2

N(ds) == Leaf(Num(Dec(ds)))

M(ds) == Leaf(Num(Neg(Dec(ds))))

S(w) == Leaf(Str(<<w>>))

L(k) == Leaf(Lex(k))

IntLiterals ==
    {N(<<0>>), N(<<1>>), N(<<2>>), M(<<1>>),
     N(<<2,1,4,7,4,8,3,6,4,7>>), N(<<2,1,4,7,4,8,3,6,4,8>>),
     M(<<2,1,4,7,4,8,3,6,4,8>>), M(<<2,1,4,7,4,8,3,6,4,9>>),
     N(<<4,2,9,4,9,6,7,2,9,5>>), N(<<4,2,9,4,9,6,7,2,9,6>>),
     N(<<9,2,2,3,3,7,2,0,3,6,8,5,4,7,7,5,8,0,7>>), N(<<9,2,2,3,3,7,2,0,3,6,8,5,4,7,7,5,8,0,8>>),
     M(<<9,2,2,3,3,7,2,0,3,6,8,5,4,7,7,5,8,0,8>>), M(<<9,2,2,3,3,7,2,0,3,6,8,5,4,7,7,5,8,0,9>>),
     N(<<1,8,4,4,6,7,4,4,0,7,3,7,0,9,5,5,1,6,1,5>>), N(<<1,8,4,4,6,7,4,4,0,7,3,7,0,9,5,5,1,6,1,6>>)}

FloatLiterals == {Leaf(Num(<<"1", ".", "5">>)), Leaf(Num(<<"0", ".", "1">>))}

StringLiterals ==
    {S("VALUE1"), S("NOPE"), S("5"), S("aGk="), S("true")}

Scalars ==
    IntLiterals \cup FloatLiterals \cup StringLiterals \cup {L("true"), L("false"), L("null")}

One == N(<<1>>)

\* one known field given one literal
ScalarDocs ==
    {Obj(<<[s EXCEPT !.key = fd.name]>>) : fd \in MessageTypes.TestMessage, s \in Scalars}

IntElems == {One, N(<<2>>), L("null"), N(<<2,1,4,7,4,8,3,6,4,8>>)}

MsgElems == {Obj(<<Mem("x", One)>>), Obj(<<Mem("x", N(<<2>>))>>), L("null")}

\* one field given an array
ArrayDocs ==
    {Obj(<<Mem(f, Arr(es))>>) : f \in {"i32", "ri"}, es \in SeqsUpTo(IntElems, MaxArrayLen)}
    \cup {Obj(<<Mem(f, Arr(es))>>) : f \in {"nm", "rm"}, es \in SeqsUpTo(MsgElems, MaxArrayLen)}

RECURSIVE UnknownValues(_)
\* values nested to depth d
UnknownValues(d) ==
    LET flat == {One, S("s"), L("null"), Arr(<<>>), Obj(<<>>)}
    IN  IF d = 0 THEN flat
        ELSE flat \cup UNION {{Arr(<<u>>), Arr(<<One, u>>), Obj(<<Mem("k", u)>>),
                               Obj(<<Mem("k", u), Mem("j", One)>>)} : u \in UnknownValues(d - 1)}

\* an unknown key with a nested value, before a known key
SkipDocs ==
    {Obj(<<Mem("zz", u), Mem("i32", One)>>) : u \in UnknownValues(MaxSkipDepth)}
    \cup {Obj(<<Mem("nm", Obj(<<Mem("zz", u), Mem("x", One)>>))>>) : u \in UnknownValues(1)}

Members ==
    {Mem("i32", One), Mem("i32", L("null")), Mem("o1", One), Mem("o2", N(<<2>>)),
     Mem("zz", Obj(<<Mem("a", Arr(<<One, Obj(<<>>)>>))>>)),
     Mem("nm", Obj(<<Mem("zz", Arr(<<One>>)), Mem("x", One), Mem("yy", L("null"))>>))}

\* known and unknown keys in every order
MemberDocs == {Obj(ms) : ms \in SeqsUpTo(Members, MaxMembers)}

\* the members of the oneof o given values and null in every order
OneofDocs ==
    {Obj(ms) : ms \in SeqsUpTo({Mem("o1", One), Mem("o2", N(<<2>>)), Mem("o1", L("null")),
                                Mem("o2", L("null"))}, MaxMembers)}

MapMembers ==
    {Mem(k, v) : k \in {"1", "2", "true", "a"}, v \in {One, L("null")}}

\* a map field given an object
MapDocs ==
    {Obj(<<Mem(f, Obj(ms))>>) : f \in {"mi", "mb", "ms"}, ms \in SeqsUpTo(MapMembers, MaxMapEntries)}

Trees == ScalarDocs \cup ArrayDocs \cup SkipDocs \cup MemberDocs \cup OneofDocs \cup MapDocs

Bodies ==
    {Obj(<<>>), Obj(<<Mem("i32", One)>>), Obj(<<Mem("zz", Arr(<<One>>))>>),
     Obj(<<Mem("i32", N(<<2,1,4,7,4,8,3,6,4,8>>))>>), L("null"), One}

Trails ==
    SeqsUpTo({Lex("ws"), Lex("bad"), Num(<<"1">>), Lex("}"), Lex("null")}, MaxTrail)

\* a text with the lexeme at p left out, with x put in before p, cut before p
Deleted(w, p) == SubSeq(w, 1, p - 1) \o SubSeq(w, p + 1, Len(w))

Inserted(w, p, x) == SubSeq(w, 1, p - 1) \o <<x>> \o SubSeq(w, p, Len(w))

CutAt(w, p) == SubSeq(w, 1, p - 1)

\* the lexemes put into a well-formed text to spoil it
Strays == {Lex("bad"), Lex(","), Lex(":"), Lex("]"), Lex("}"), Lex("["), Lex("{"),
           Num(<<"1">>), Str(<<"i32">>)}

\* the texts one edit away from w
Edits(w) ==
    {Deleted(w, p) : p \in 1..Len(w)}
    \cup {CutAt(w, p) : p \in 1..Len(w)}
    \cup {Inserted(w, p, x) : p \in 1..(Len(w) + 1), x \in Strays}

\* well-formed documents with unknown keys and nested values, to be spoiled
EditBases ==
    {Obj(<<Mem("zz", Arr(<<One, Obj(<<Mem("a", N(<<2>>))>>)>>)), Mem("i32", One)>>),
     Obj(<<Mem("i32", One), Mem("zz", Obj(<<Mem("a", Arr(<<One>>))>>))>>),
     Obj(<<Mem("nm", Obj(<<Mem("zz", Arr(<<One>>)), Mem("x", One)>>))>>),
     Obj(<<Mem("ri", Arr(<<One, N(<<2>>)>>)), Mem("mi", Obj(<<Mem("1", One)>>))>>)}

\* a short document spoiled twice
TwiceEdited == UNION {Edits(w) : w \in Edits(Render(Obj(<<Mem("zz", Arr(<<One>>)), Mem("i32", One)>>)))}

\* texts that are, but for a few, no JSON documents
RawDocs ==
    {Doc(NoDoc.tree, w) : w \in UNION {Edits(Render(t)) : t \in EditBases} \cup TwiceEdited}

Docs ==
    {Doc(t, <<>>) : t \in Trees} \cup {Doc(b, tr) : b \in Bodies, tr \in Trails} \cup RawDocs

\* documents for the message with the required field
ReqTrees ==
    {L("null"), Obj(<<>>), Obj(<<Mem("id", One)>>), Obj(<<Mem("id", L("null"))>>),
     Obj(<<Mem("child", Obj(<<>>))>>), Obj(<<Mem("id", One), Mem("child", Obj(<<>>))>>),
     Obj(<<Mem("id", One), Mem("child", Obj(<<Mem("id", N(<<2>>))>>))>>),
     Obj(<<Mem("child", L("null")), Mem("id", One)>>)}

ReqDocs == {Doc(t, tr) : t \in ReqTrees, tr \in {<<>>, <<Lex("ws")>>, <<Lex("null")>>}}

\* the documents given to a message of the type mdName
DocsOf(mdName) == IF mdName = "Req" THEN ReqDocs ELSE Docs

(***************************************************************************)
(* The stub of package grpcdynamic                                         *)
(*                                                                         *)
(* A call returns [conn, ctx, ret]: the operations it did on the           *)
(* connection, the state of the context it derived, and the value and the  *)
(* error it returned. The results of grpc.Invoke, grpc.NewClientStream,    *)
(* cs.SendMsg and cs.CloseSend are inputs of the call.                     *)
(***************************************************************************)
\* a *desc.MethodDescriptor
Method(client, server, input, output) ==
    [client |-> client, server |-> server, input |-> input, output |-> output]

NoMethod == Method(FALSE, FALSE, "", "")

IsClientStreaming(m) == m.client

IsServerStreaming(m) == m.server

\* the errors the transport may return, and nil
Outcomes == {"nil", "Unavailable"}

\* a returned pair (value, error); text is the method type the error names
Ret(k, mdName, e, text) == [v |-> [k |-> k, md |-> mdName], err |-> e, text |-> text]

NoRet == Ret("nil", "", "nil", "")

\* what a call leaves
Left(ops, c, r) == [conn |-> ops, ctx |-> c, ret |-> r]

\* methodType: the first test asks IsClientStreaming twice
methodType(m) ==
    IF IsClientStreaming(m) /\ IsClientStreaming(m) THEN "bidi-streaming"
    ELSE IF IsClientStreaming(m) THEN "client-streaming"
    ELSE IF IsServerStreaming(m) THEN "server-streaming"
    ELSE "unary"

\* checkMessageType for a *dynamic.Message of the type typeName
checkMessageType(mdName, typeName) ==
    IF typeName # mdName THEN "UnexpectedMessageType" ELSE "nil"

\* InvokeRpc after grpc.Invoke returned e
invoked(m, e) ==
    IF e # "nil" THEN Left(<<"Invoke">>, "none", Ret("nil", "", e, ""))
    ELSE Left(<<"Invoke">>, "none", Ret("Message", m.output, "nil", ""))

\* InvokeRpc after checkMessageType
invokeChecked(m, c, e) ==
    IF c # "nil" THEN Left(<<>>, "none", Ret("nil", "", c, ""))
    ELSE invoked(m, e)

\* Stub.InvokeRpc; request is the type of the request message, e what
\* grpc.Invoke returns
InvokeRpc(m, request, e) ==
    IF IsClientStreaming(m) \/ IsServerStreaming(m)
        THEN Left(<<>>, "none", Ret("nil", "", "NotUnary", methodType(m)))
    ELSE invokeChecked(m, checkMessageType(m.input, request), e)

\* InvokeRpcStream after cs.CloseSend() returned e
closed(m, e) ==
    IF e # "nil"
        THEN Left(<<"NewClientStream", "SendMsg", "CloseSend">>, "cancelled", Ret("nil", "", e, ""))
    ELSE Left(<<"NewClientStream", "SendMsg", "CloseSend">>, "derived",
              Ret("Stream", m.output, "nil", ""))

\* InvokeRpcStream after cs.SendMsg(request) returned e.send
sent(m, e) ==
    IF e.send # "nil"
        THEN Left(<<"NewClientStream", "SendMsg">>, "cancelled", Ret("nil", "", e.send, ""))
    ELSE closed(m, e.close)

\* InvokeRpcStream after grpc.NewClientStream returned e.new: cancel is not
\* called on this return
streamCreated(m, e) ==
    IF e.new # "nil" THEN Left(<<"NewClientStream">>, "derived", Ret("nil", "", e.new, ""))
    ELSE sent(m, e)

\* InvokeRpcStream after checkMessageType; context.WithCancel(ctx) follows
streamChecked(m, c, e) ==
    IF c # "nil" THEN Left(<<>>, "none", Ret("nil", "", c, ""))
    ELSE streamCreated(m, e)

\* InvokeRpcStream taking every method that streams from the server
InvokeRpcStreamAnyServer(m, request, e) ==
    IF ~IsServerStreaming(m)
        THEN Left(<<>>, "none", Ret("nil", "", "NotServerStreaming", methodType(m)))
    ELSE streamChecked(m, checkMessageType(m.input, request), e)

\* Stub.InvokeRpcStream; e is what NewClientStream, SendMsg and CloseSend
\* return when they are called
InvokeRpcStream(m, request, e) ==
    IF IsClientStreaming(m) \/ ~IsServerStreaming(m)
        THEN Left(<<>>, "none", Ret("nil", "", "NotServerStreaming", methodType(m)))
    ELSE streamChecked(m, checkMessageType(m.input, request), e)

\* Stub.NewClientStream; e is what grpc.NewClientStream returns
NewClientStream(m, e) ==
    IF ~IsClientStreaming(m)
        THEN Left(<<>>, "none", Ret("nil", "", "NotClientStreaming", methodType(m)))
    ELSE IF e # "nil" THEN Left(<<"NewClientStream">>, "none", Ret("nil", "", e, ""))
    ELSE Left(<<"NewClientStream">>, "none", Ret("ClientStream", m.output, "nil", ""))

\* the methods of the service: every kind, for each request type
Methods ==
    {Method(c, sv, i, "Nested") : c \in BOOLEAN, sv \in BOOLEAN, i \in {"TestMessage", "Req"}}

(***************************************************************************)
(* The program                                                             *)
(***************************************************************************)
\* the fields a caller sets before a parse
Presets ==
    <<[name |-> <<"i32">>, v |-> Val("int32", <<"7">>)],
      [name |-> <<"o1">>, v |-> Val("int32", <<"3">>)],
      [name |-> <<"s">>, v |-> Val("string", <<"hi">>)],
      [name |-> <<"nm">>, v |-> Message("Nested", (1 :> Val("int32", <<"1">>)))],
      [name |-> <<"id">>, v |-> Val("int32", <<"5">>)],
      [name |-> <<"child">>, v |-> Message("Req", (1 :> Val("int32", <<"6">>)))]>>

RootTypes == {"TestMessage", "Req"}

\* dynamic.NewMessage(md)
Init ==
    /\ md \in RootTypes
    /\ values = NoValues
    /\ err = "nil"
    /\ js = <<>>
    /\ doc = NoDoc
    /\ before = NoValues
    /\ reader = NewReader(<<>>)
    /\ op = "NewMessage"
    /\ pc = "new"
    /\ method = NoMethod
    /\ conn = <<>>
    /\ ctx = "none"
    /\ ret = NoRet

\* the message and the error an unmarshal call leaves
Returns(u) ==
    /\ values' = u.m.values
    /\ err' = u.err
    /\ reader' = u.r

\* the bytes and the error a marshal call returns
Wrote(w) ==
    /\ js' = w.b
    /\ err' = w.err

SetField(p) ==
    /\ pc = "new"
    /\ FindFieldDescriptorByName(md, p.name) # NoField
    /\ values' = internalSetField(md, values, FindFieldDescriptorByName(md, p.name), p.v)
    /\ before' = values
    /\ op' = "SetField"
    /\ pc' = "set"
    /\ UNCHANGED <<md, err, js, doc, reader>>
    /\ UNCHANGED stubVars

\* what a call of an unmarshal method on the document d leaves beside its result
Called(d, name) ==
    /\ js' = Input(d)
    /\ doc' = d
    /\ before' = values
    /\ op' = name
    /\ pc' = "done"
    /\ UNCHANGED md
    /\ UNCHANGED stubVars

CallUnmarshalMergeJSON ==
    /\ pc \in {"new", "set"}
    /\ \E d \in DocsOf(md) :
        /\ Returns(UnmarshalMergeJSON([md |-> md, values |-> values], Input(d)))
        /\ Called(d, "UnmarshalMergeJSON")

CallUnmarshalJSON ==
    /\ pc \in {"new", "set"}
    /\ \E d \in DocsOf(md) :
        /\ Returns(UnmarshalJSON([md |-> md, values |-> values], Input(d)))
        /\ Called(d, "UnmarshalJSON")

\* the marshalling half of jsonTranslationParty
CallMarshalJSON ==
    /\ pc \in {"new", "set"}
    /\ Wrote(MarshalJSON([md |-> md, values |-> values]))
    /\ before' = values
    /\ op' = "MarshalJSON"
    /\ pc' = "marshalled"
    /\ UNCHANGED <<md, values, doc, reader>>
    /\ UNCHANGED stubVars

\* the unmarshalling half: the marshalled bytes are parsed into a new message,
\* and before keeps the message that was marshalled
TranslateBack ==
    /\ pc = "marshalled"
    /\ err = "nil"
    /\ Returns(UnmarshalJSON(NewMessage(md).v, js))
    /\ before' = values
    /\ op' = "RoundTrip"
    /\ pc' = "done"
    /\ UNCHANGED <<md, js, doc>>
    /\ UNCHANGED stubVars

\* what a call on the stub with the message as the request leaves
Dispatched(m, name, l) ==
    /\ method' = m
    /\ conn' = l.conn
    /\ ctx' = l.ctx
    /\ ret' = l.ret
    /\ op' = name
    /\ pc' = "done"
    /\ UNCHANGED <<md, values, err, js, doc, before, reader>>

CallInvokeRpc ==
    /\ pc \in {"new", "set"}
    /\ \E m \in Methods, e \in Outcomes :
        Dispatched(m, "InvokeRpc", InvokeRpc(m, md, e))

CallInvokeRpcStream ==
    /\ pc \in {"new", "set"}
    /\ \E m \in Methods, e \in [new : Outcomes, send : Outcomes, close : Outcomes] :
        Dispatched(m, "InvokeRpcStream", InvokeRpcStream(m, md, e))

CallNewClientStream ==
    /\ pc \in {"new", "set"}
    /\ \E m \in Methods, e \in Outcomes :
        Dispatched(m, "NewClientStream", NewClientStream(m, e))

Next ==
    \/ \E i \in DOMAIN Presets : SetField(Presets[i])
    \/ CallUnmarshalMergeJSON
    \/ CallUnmarshalJSON
    \/ CallMarshalJSON
    \/ TranslateBack
    \/ CallInvokeRpc
    \/ CallInvokeRpcStream
    \/ CallNewClientStream

Spec == Init /\ [][Next]_vars

(***************************************************************************)
(* Properties                                                              *)
(***************************************************************************)
\* the last call was one of the two unmarshal methods, on a document
IsUnmarshal == op \in {"UnmarshalMergeJSON", "UnmarshalJSON"} /\ doc.tree.k # "none"

\* the message the last call was made on, as it was then
Receiver == [md |-> md, values |-> before]

\* the result of the last call's method on the receiver for another input
Replay(input) ==
    IF op = "UnmarshalJSON" THEN UnmarshalJSON(Receiver, input)
    ELSE UnmarshalMergeJSON(Receiver, input)

\* lexemes other than whitespace follow the document's value
HasTrailingToken == \E i \in DOMAIN doc.trail : doc.trail[i].k # "ws"

\* C1: an unmarshal call on a complete top-level value followed by a token that
\* is not whitespace fails (with the superfluous-data error when the value
\* alone is accepted); followed by whitespace only or by nothing, it returns
\* what it returns for the value alone, and never the superfluous-data error.
C1_TrailingData ==
    IsUnmarshal =>
        IF HasTrailingToken
            THEN /\ err # "nil"
                 /\ Replay(Render(doc.tree)).err = "nil" => err = "SuperfluousData"
            ELSE /\ err # "SuperfluousData"
                 /\ err = Replay(Render(doc.tree)).err
                 /\ values = Replay(Render(doc.tree)).m.values

\* {"i32":1} followed by whitespace and a stray token was rejected for its trail
C1_Witness ==
    /\ op = "UnmarshalMergeJSON"
    /\ doc = Doc(Obj(<<Mem("i32", One)>>), <<Lex("ws"), Lex("bad")>>)
    /\ err = "SuperfluousData"


\* every field the message stores is a scalar
ScalarOnly(vals) == \A n \in DOMAIN vals : vals[n].k \notin {"message", "slice", "map", "nil"}

\* C2: for a message whose set fields are all scalar, unmarshalling into a new
\* message of the same type what MarshalJSON returned succeeds and gives a
\* message equal to the one marshalled.
C2_RoundTrip ==
    (op = "RoundTrip" /\ ScalarOnly(before)) =>
        /\ err = "nil"
        /\ DOMAIN values = DOMAIN before
        /\ \A n \in DOMAIN before : values[n] = before[n]

\* the message with i32 = 7 was marshalled to no bytes at all, and parsing them
\* back met the end of the input
C2_Witness ==
    /\ op = "RoundTrip"
    /\ before = (1 :> Val("int32", <<"7">>))
    /\ js = <<>>
    /\ err = "EOF"
    /\ values = NoValues

\* the last call parsed an object of one member whose key is a field of md
SoleField ==
    /\ IsUnmarshal
    /\ doc.trail = <<>>
    /\ doc.tree.k = "obj"
    /\ Len(doc.tree.c) = 1
    /\ FindFieldDescriptorByName(md, doc.tree.c[1].key) # NoField

\* that member's value, and the field it names
SoleValue == doc.tree.c[1]

SoleFd == FindFieldDescriptorByName(md, doc.tree.c[1].key)

Int32Types == {"TYPE_INT32", "TYPE_SINT32", "TYPE_SFIXED32"}

Int64Types == {"TYPE_INT64", "TYPE_SINT64", "TYPE_SFIXED64"}

Uint32Types == {"TYPE_UINT32", "TYPE_FIXED32"}

Uint64Types == {"TYPE_UINT64", "TYPE_FIXED64"}

IntegerTypes == Int32Types \cup Int64Types \cup Uint32Types \cup Uint64Types

\* a decimal integer literal: an optional minus sign and digits
IsIntLiteral(t) == AllDigits(MagOf(t))

\* the number an integer literal denotes, as a canonical integer text
IntValue(t) ==
    IF IsNegText(t) /\ StripZeros(Tail(t)) # <<"0">> THEN Neg(StripZeros(Tail(t)))
    ELSE StripZeros(MagOf(t))

\* the least and the greatest number of an integer type
TypeMin(type) ==
    CASE type \in Int32Types -> MinInt32
      [] type \in Int64Types -> Neg(MinInt64Mag)
      [] OTHER -> <<"0">>

TypeMax(type) ==
    CASE type \in Int32Types -> MaxInt32
      [] type \in Int64Types -> MaxInt64Mag
      [] type \in Uint32Types -> MaxUint32
      [] OTHER -> MaxUint64Mag

\* the integer literal t denotes a number of the integer type
InRange(type, t) ==
    /\ ~IntLess(IntValue(t), TypeMin(type))
    /\ ~IntLess(TypeMax(type), IntValue(t))

\* the kind of the canonical Go value of a scalar type
KindOf(type) ==
    CASE type \in Int32Types \cup {"TYPE_ENUM"} -> "int32"
      [] type \in Int64Types -> "int64"
      [] type \in Uint32Types -> "uint32"
      [] type \in Uint64Types -> "uint64"
      [] type = "TYPE_BOOL" -> "bool"
      [] type = "TYPE_FLOAT" -> "float32"
      [] type = "TYPE_DOUBLE" -> "float64"
      [] type = "TYPE_STRING" -> "string"
      [] type = "TYPE_BYTES" -> "bytes"
      [] OTHER -> "message"

\* the text names a value of the enum
NamesEnumValue(t) == \E sy \in Symbols : sy.fqn = <<EnumTypeName, ".">> \o t

EnumNumber(t) == (CHOOSE sy \in Symbols : sy.fqn = <<EnumTypeName, ".">> \o t).number

\* the literal is a well-formed JSON literal of the scalar type
WellFormed(type, lit) ==
    CASE type \in IntegerTypes -> lit.k = "num" /\ IsIntLiteral(lit.v) /\ InRange(type, lit.v)
      [] type \in {"TYPE_FLOAT", "TYPE_DOUBLE"} -> lit.k = "num" /\ IsFloatText(lit.v)
      [] type = "TYPE_BOOL" -> lit.k \in {"true", "false"}
      [] type = "TYPE_STRING" -> lit.k = "str"
      [] type = "TYPE_BYTES" -> lit.k = "str" /\ Base64Decode(lit.v).err = "nil"
      [] type = "TYPE_ENUM" ->
            \/ lit.k = "num" /\ IsIntLiteral(lit.v) /\ InRange("TYPE_INT32", lit.v)
            \/ lit.k = "str" /\ NamesEnumValue(lit.v)
      [] OTHER -> FALSE

\* the canonical Go value the literal denotes (for the float types, its kind)
Denotes(type, lit, val) ==
    /\ val.k = KindOf(type)
    /\ CASE type \in IntegerTypes -> val.v = IntValue(lit.v)
         [] type = "TYPE_BOOL" -> val.v = <<lit.k>>
         [] type = "TYPE_STRING" -> val.v = lit.v
         [] type = "TYPE_BYTES" -> val.v = Base64Decode(lit.v).v
         [] type = "TYPE_ENUM" ->
                val.v = IF lit.k = "num" THEN IntValue(lit.v) ELSE EnumNumber(lit.v)
         [] OTHER -> TRUE

\* C3: a non-repeated field of any scalar type (every integer type, float,
\* double, bool, enum, string, bytes) given a well-formed literal of its type
\* decodes without error to the canonical Go value of that type.
C3_EveryScalarType ==
    (SoleField /\ ~IsRepeated(SoleFd) /\ WellFormed(SoleFd.type, SoleValue)) =>
        /\ err = "nil"
        /\ SoleFd.number \in DOMAIN values
        /\ Denotes(SoleFd.type, SoleValue, values[SoleFd.number])

\* {"s":"VALUE1"} for the string field s was rejected for the field's type
C3_Witness ==
    /\ op = "UnmarshalJSON"
    /\ doc = Doc(Obj(<<Mem("s", S("VALUE1"))>>), <<>>)
    /\ err = "UnknownFieldType"
    /\ values = NoValues

RECURSIVE StripUnknown(_, _)
RECURSIVE StripMembers(_, _)
\* the value of a member for the field fd, with the unknown keys of the
\* messages in it removed
StripValue(val, fd) ==
    IF fd.type \notin {"TYPE_MESSAGE", "TYPE_GROUP"} \/ IsMap(fd) THEN val
    ELSE IF val.k = "obj" THEN StripUnknown(val, fd.msg)
    ELSE IF val.k = "arr" THEN
        [val EXCEPT !.c = [i \in DOMAIN val.c |-> StripUnknown(val.c[i], fd.msg)]]
    ELSE val

StripMembers(ms, mdName) ==
    IF ms = <<>> THEN <<>>
    ELSE IF FindFieldDescriptorByName(mdName, Head(ms).key) = NoField
        THEN StripMembers(Tail(ms), mdName)
    ELSE <<StripValue(Head(ms), FindFieldDescriptorByName(mdName, Head(ms).key))>>
            \o StripMembers(Tail(ms), mdName)

\* a JSON value for a message of type mdName without the members, at any
\* depth, whose key names no field of the message they are given to
StripUnknown(t, mdName) ==
    IF t.k # "obj" THEN t ELSE [t EXCEPT !.c = StripMembers(t.c, mdName)]

\* C4: a key that names no field of its message is skipped with its whole
\* value, nested arrays and objects included: the call returns the error and
\* leaves the message it would for the same document with those members
\* removed.
C4_UnknownKeysSkipped ==
    (IsUnmarshal /\ StripUnknown(doc.tree, md) # doc.tree) =>
        /\ err = Replay(Render(StripUnknown(doc.tree, md)) \o doc.trail).err
        /\ values = Replay(Render(StripUnknown(doc.tree, md)) \o doc.trail).m.values

\* {"i32":1,"zz":{"a":[1,{}]},"nm":{"zz":[1],"x":1,"yy":null}} was merged into
\* a message with o1 set: the two known fields were stored, o1 was kept
C4_Witness ==
    /\ op = "UnmarshalMergeJSON"
    /\ doc = Doc(Obj(<<Mem("i32", One),
                       Mem("zz", Obj(<<Mem("a", Arr(<<One, Obj(<<>>)>>))>>)),
                       Mem("nm", Obj(<<Mem("zz", Arr(<<One>>)), Mem("x", One),
                                       Mem("yy", L("null"))>>))>>), <<>>)
    /\ err = "nil"
    /\ DOMAIN before = {23}
    /\ DOMAIN values = {1, 17, 23}
    /\ values[1] = Val("int32", <<"1">>)
    /\ values[17] = Message("Nested", (1 :> Val("int32", <<"1">>)))

\* the last member of the document's object for the field fd gives it null
NullLast(fd) ==
    \E i \in DOMAIN doc.tree.c :
        /\ doc.tree.c[i].key = fd.name
        /\ doc.tree.c[i].k = "null"
        /\ \A j \in DOMAIN doc.tree.c : j > i => doc.tree.c[j].key # fd.name

\* C5: after a successful parse of an object that gives a known field the
\* literal null, the message stores no value for that field, whatever it
\* stored before, and stores no null marker for any field.
C5_NullClearsField ==
    (IsUnmarshal /\ doc.tree.k = "obj" /\ err = "nil") =>
        /\ \A fd \in MessageTypes[md] : NullLast(fd) => fd.number \notin DOMAIN values
        /\ \A n \in DOMAIN values : ~IsNil(values[n])

\* {"i32":1,"o1":1,"i32":null} was merged into a message with i32 = 7: i32 is
\* no longer stored
C5_Witness ==
    /\ op = "UnmarshalMergeJSON"
    /\ doc = Doc(Obj(<<Mem("i32", One), Mem("o1", One), Mem("i32", L("null"))>>), <<>>)
    /\ err = "nil"
    /\ DOMAIN before = {1}
    /\ DOMAIN values = {23}

\* what the element converter makes of the JSON value e alone for the field fd
ElemAlone(fd, e) == unmarshalJsFieldElement(fd, NewReader(Render(e)))

\* C6: a bare value that is not null, given for a repeated field that is not a
\* map, is stored as the sequence of exactly that one element; an array of one
\* or more elements given for a field that is not repeated is accepted and
\* leaves the field with the value of the array's last element alone (with no
\* value when that element is null). Elements are values the element
\* converter accepts.
C6_CardinalityTolerance ==
    SoleField =>
        /\ ( /\ IsRepeated(SoleFd)
             /\ ~IsMap(SoleFd)
             /\ SoleValue.k \notin {"arr", "null"}
             /\ ElemAlone(SoleFd, SoleValue).err = "nil" ) =>
                /\ err = "nil"
                /\ SoleFd.number \in DOMAIN values
                /\ values[SoleFd.number].k = "slice"
                /\ values[SoleFd.number].v = <<ElemAlone(SoleFd, SoleValue).v>>
        /\ ( /\ ~IsRepeated(SoleFd)
             /\ SoleValue.k = "arr"
             /\ Len(SoleValue.c) >= 1
             /\ \A i \in DOMAIN SoleValue.c : ElemAlone(SoleFd, SoleValue.c[i]).err = "nil" ) =>
                /\ err = "nil"
                /\ IF IsNil(ElemAlone(SoleFd, SoleValue.c[Len(SoleValue.c)]).v)
                       THEN SoleFd.number \notin DOMAIN values
                       ELSE /\ SoleFd.number \in DOMAIN values
                            /\ values[SoleFd.number] =
                                   ElemAlone(SoleFd, SoleValue.c[Len(SoleValue.c)]).v

\* {"i32":[1,null,2]} was merged into a message with i32 = 7: i32 is 2
C6_Witness ==
    /\ op = "UnmarshalMergeJSON"
    /\ doc = Doc(Obj(<<Mem("i32", Arr(<<One, L("null"), N(<<2>>)>>))>>), <<>>)
    /\ err = "nil"
    /\ DOMAIN before = {1}
    /\ DOMAIN values = {1}
    /\ values[1] = Val("int32", <<"2">>)

\* the last call gave a non-repeated field of one of the types an integer literal
IntegerGiven(types) ==
    /\ SoleField
    /\ ~IsRepeated(SoleFd)
    /\ SoleFd.type \in types
    /\ SoleValue.k = "num"
    /\ IsIntLiteral(SoleValue.v)

\* the call stored the number the literal denotes, or failed with the
\* overflow error, as the literal lies in the range of the field's type or not
RangeChecked ==
    IF InRange(SoleFd.type, SoleValue.v)
        THEN /\ err = "nil"
             /\ SoleFd.number \in DOMAIN values
             /\ Denotes(SoleFd.type, SoleValue, values[SoleFd.number])
        ELSE err = "NumericOverflowError"

\* C7: for a 32-bit integer field an integer literal is accepted if and only
\* if it lies in the range of the field's type (-2^31..2^31-1 signed,
\* 0..2^32-1 unsigned), and every literal outside it, a negative literal for
\* an unsigned field included, fails with the numeric overflow error.
C7_Int32Range == IntegerGiven(Int32Types \cup Uint32Types) => RangeChecked

\* {"u32":-1} failed with strconv's syntax error
C7_Witness ==
    /\ op = "UnmarshalJSON"
    /\ doc = Doc(Obj(<<Mem("u32", M(<<1>>))>>), <<>>)
    /\ err = "ErrSyntax"
    /\ values = NoValues

\* C8: for a 64-bit integer field every integer literal in the full 64-bit
\* range of the field's type is accepted, and an integer literal outside it
\* fails with the numeric overflow error and no other.
C8_Int64Range == IntegerGiven(Int64Types \cup Uint64Types) => RangeChecked

\* {"i64":9223372036854775808} failed with strconv's range error
C8_Witness ==
    /\ op = "UnmarshalJSON"
    /\ doc = Doc(Obj(<<Mem("i64", N(<<9,2,2,3,3,7,2,0,3,6,8,5,4,7,7,5,8,0,8>>))>>), <<>>)
    /\ err = "ErrRange"
    /\ values = NoValues

\* the last call gave the non-repeated enum field a number or a string
EnumGiven ==
    /\ SoleField
    /\ ~IsRepeated(SoleFd)
    /\ SoleFd.type = "TYPE_ENUM"
    /\ SoleValue.k \in {"num", "str"}

\* the call stored the number n for the enum field
EnumStored(n) ==
    /\ err = "nil"
    /\ SoleFd.number \in DOMAIN values
    /\ values[SoleFd.number] = Val("int32", n)

\* the call failed and left the enum field without a value
EnumRejected ==
    /\ err # "nil"
    /\ SoleFd.number \notin DOMAIN values
    /\ values = IF op = "UnmarshalJSON" THEN NoValues ELSE before

KeyFd(fd) == FindFieldByNumber(fd.msg, 1)

ValueFd(fd) == FindFieldByNumber(fd.msg, 2)

\* the text of an object key is a well-formed key of the scalar key type
WellFormedKey(type, t) ==
    CASE type \in IntegerTypes -> IsIntLiteral(t) /\ InRange(type, t)
      [] type = "TYPE_BOOL" -> t \in {<<"true">>, <<"false">>}
      [] type = "TYPE_STRING" -> TRUE
      [] OTHER -> FALSE

\* the value of the key type that the text of an object key denotes
KeyDenotes(type, t, val) ==
    /\ val.k = KindOf(type)
    /\ val.v = IF type \in IntegerTypes THEN IntValue(t) ELSE t

\* the last call gave a map field an object whose members have well-formed
\* keys of the key type and well-formed literals of the value type
MapGiven ==
    /\ SoleField
    /\ IsMap(SoleFd)
    /\ SoleValue.k = "obj"
    /\ \A i \in DOMAIN SoleValue.c :
        /\ WellFormedKey(KeyFd(SoleFd).type, SoleValue.c[i].key)
        /\ WellFormed(ValueFd(SoleFd).type, SoleValue.c[i])

\* C10: a JSON object given for a map field parses, for integer, bool and
\* string keys alike, to a stored mapping with one entry per (distinct) object
\* member, every key a value of the entry message's field-1 type and every
\* value a value of its field-2 type.
C10_MapObject ==
    MapGiven =>
        /\ err = "nil"
        /\ SoleFd.number \in DOMAIN values
        /\ values[SoleFd.number].k = "map"
        /\ Cardinality(DOMAIN values[SoleFd.number].v) =
               Cardinality({SoleValue.c[i].key : i \in DOMAIN SoleValue.c})
        /\ \A i \in DOMAIN SoleValue.c :
               \E kk \in DOMAIN values[SoleFd.number].v :
                   KeyDenotes(KeyFd(SoleFd).type, SoleValue.c[i].key, kk)
        /\ \A kk \in DOMAIN values[SoleFd.number].v :
               /\ kk.k = KindOf(KeyFd(SoleFd).type)
               /\ values[SoleFd.number].v[kk].k = KindOf(ValueFd(SoleFd).type)

\* {"mb":{"true":1}} for a map with bool keys was rejected at its key
C10_Witness ==
    /\ op = "UnmarshalJSON"
    /\ doc = Doc(Obj(<<Mem("mb", Obj(<<Mem("true", One)>>))>>), <<>>)
    /\ err = "BadInput"
    /\ values = NoValues

\* the fields of a message type that are members of the oneof g
OneofMembers(mdName, g) == {fd \in MessageTypes[mdName] : fd.oneof = g}

OneofGroups(mdName) == {fd.oneof : fd \in MessageTypes[mdName]} \ {""}

\* at most one member of each oneof of the message type has a stored value
Exclusive(mdName, vals) ==
    \A g \in OneofGroups(mdName) :
        Cardinality({fd \in OneofMembers(mdName, g) : fd.number \in DOMAIN vals}) <= 1

\* the last member of the document's object that names a member of the oneof g
\* names fd and gives it a value that is not null
LastOfGroup(fd, g) ==
    \E i \in DOMAIN doc.tree.c :
        /\ doc.tree.c[i].key = fd.name
        /\ doc.tree.c[i].k # "null"
        /\ \A j \in DOMAIN doc.tree.c :
               j > i => \A h \in OneofMembers(md, g) : doc.tree.c[j].key # h.name

\* C11: in every state of a JSON parse, after each store and each delete and
\* when the call returns, at most one field of each oneof has a stored value,
\* also for documents that name several members of a oneof or give null to a
\* member; after a successful parse the member named last with a value is the
\* one stored.
C11_OneofExclusive ==
    IsUnmarshal =>
        /\ Exclusive(md, values)
        /\ \A i \in DOMAIN reader.stores :
               Exclusive(reader.stores[i].md, reader.stores[i].values)
        /\ (err = "nil" /\ doc.tree.k = "obj") =>
               \A g \in OneofGroups(md) : \A fd \in OneofMembers(md, g) :
                   LastOfGroup(fd, g) =>
                       \A h \in OneofMembers(md, g) :
                           (h.number \in DOMAIN values) <=> (h = fd)

\* {"o2":2,"o1":1} was merged into a message with o1 = 3: the store of o2
\* evicted o1, and the store of o1 evicted o2
C11_Witness ==
    /\ op = "UnmarshalMergeJSON"
    /\ doc = Doc(Obj(<<Mem("o2", N(<<2>>)), Mem("o1", One)>>), <<>>)
    /\ err = "nil"
    /\ DOMAIN before = {23}
    /\ Len(reader.stores) = 2
    /\ DOMAIN reader.stores[1].values = {24}
    /\ DOMAIN values = {23}
    /\ values[23] = Val("int32", <<"1">>)

\* the lexemes of a text that are not white space
Dense(w) == SelectSeq(w, LAMBDA x : x.k # "ws")

RECURSIVE ValueEnd(_, _)
RECURSIVE ElementsEnd(_, _)
RECURSIVE MembersEnd(_, _)
\* JSON's grammar: the position after the value that begins at w[i], 0 if none
\* begins there
ValueEnd(w, i) ==
    IF i > Len(w) THEN 0
    ELSE CASE w[i].k \in {"str", "num", "true", "false", "null"} -> i + 1
           [] w[i].k = "[" ->
                IF i < Len(w) /\ w[i + 1].k = "]" THEN i + 2 ELSE ElementsEnd(w, i + 1)
           [] w[i].k = "{" ->
                IF i < Len(w) /\ w[i + 1].k = "}" THEN i + 2 ELSE MembersEnd(w, i + 1)
           [] OTHER -> 0

\* the position after the "]" that ends the elements beginning at w[i]
ElementsEnd(w, i) ==
    LET e == ValueEnd(w, i)
    IN  IF e = 0 \/ e > Len(w) THEN 0
        ELSE IF w[e].k = "]" THEN e + 1
        ELSE IF w[e].k = "," THEN ElementsEnd(w, e + 1)
        ELSE 0

\* the position after the "}" that ends the members beginning at w[i]
MembersEnd(w, i) ==
    IF i + 1 > Len(w) \/ w[i].k # "str" \/ w[i + 1].k # ":" THEN 0
    ELSE LET e == ValueEnd(w, i + 2)
         IN  IF e = 0 \/ e > Len(w) THEN 0
             ELSE IF w[e].k = "}" THEN e + 1
             ELSE IF w[e].k = "," THEN MembersEnd(w, e + 1)
             ELSE 0

\* the text is one JSON value, white space apart
IsJSON(w) == ValueEnd(Dense(w), 1) = Len(Dense(w)) + 1

\* the last call was one of the two unmarshal methods
Unmarshalled == op \in {"UnmarshalMergeJSON", "UnmarshalJSON"}

\* C12: if a token read or an expect fails at any point of a parse, inside
\* the value of an unknown key included, the call returns an error; and a
\* call on a text that is no JSON value never returns success.
C12_ErrorsReturned ==
    Unmarshalled =>
        /\ reader.failed => err # "nil"
        /\ ~IsJSON(js) => err # "nil"

\* {"zz":[1 {"a":2}],"i32":1}, a comma missing inside the value of the unknown
\* key: the error of the skip was met again at the next key and returned
C12_Witness ==
    /\ op = "UnmarshalMergeJSON"
    /\ js = Deleted(Render(Obj(<<Mem("zz", Arr(<<One, Obj(<<Mem("a", N(<<2>>))>>)>>)),
                                 Mem("i32", One)>>)), 6)
    /\ reader.failed
    /\ err = "SyntaxError"
    /\ values = before

\* the text is the single token null
IsNullText(w) == Dense(w) = <<Lex("null")>>

\* the type has a required field
HasRequired(mdName) == \E fd \in MessageTypes[mdName] : fd.label = "required"

\* the statement of C13 as the specification words it: top-level null is
\* accepted without error whatever the descriptor
C13_AsStated ==
    (Unmarshalled /\ IsNullText(js)) =>
        /\ err = "nil"
        /\ op = "UnmarshalMergeJSON" => values = before
        /\ op = "UnmarshalJSON" => values = NoValues

\* C13: on the single top-level token null no field is stored:
\* UnmarshalMergeJSON returns nil and leaves every stored field as it was;
\* UnmarshalJSON leaves the message empty and returns nil when the descriptor
\* has no required field, and MissingRequiredField when it has one.
C13_TopLevelNull ==
    (Unmarshalled /\ IsNullText(js)) =>
        /\ op = "UnmarshalMergeJSON" => (err = "nil" /\ values = before)
        /\ op = "UnmarshalJSON" =>
            /\ values = NoValues
            /\ err = IF HasRequired(md) THEN "MissingRequiredField" ELSE "nil"

\* null parsed by UnmarshalJSON into a message whose required field was set:
\* the message is empty and the call returned MissingRequiredField
C13_Witness ==
    /\ op = "UnmarshalJSON"
    /\ IsNullText(js)
    /\ md = "Req"
    /\ DOMAIN before = {1}
    /\ values = NoValues
    /\ err = "MissingRequiredField"

RECURSIVE HoldsNil(_)
\* a stored value is a container with a nil element, key or value, or holds
\* such a container
HoldsNil(v) ==
    CASE v.k = "slice" -> \E i \in DOMAIN v.v : IsNil(v.v[i]) \/ HoldsNil(v.v[i])
      [] v.k = "map" ->
            \E kk \in DOMAIN v.v : IsNil(kk) \/ IsNil(v.v[kk]) \/ HoldsNil(v.v[kk])
      [] v.k = "message" -> \E n \in DOMAIN v.v.values : HoldsNil(v.v.values[n])
      [] OTHER -> FALSE

\* C16: after a successful parse no element of a stored repeated sequence and
\* no key or value of a stored map is nil, in the message and in the messages
\* it holds.
C16_NoNullInContainer ==
    (Unmarshalled /\ err = "nil") => \A n \in DOMAIN values : ~HoldsNil(values[n])

\* the null elements of an array given to a repeated field are left out
ArrayNullsDropped ==
    (Unmarshalled /\ err = "nil") =>
        \A n \in DOMAIN values :
            values[n].k = "slice" => \A i \in DOMAIN values[n].v : ~IsNil(values[n].v[i])

\* {"mi":{"1":null}}: the parse succeeded and the map stores nil under 1
C16_Witness ==
    /\ op = "UnmarshalJSON"
    /\ doc = Doc(Obj(<<Mem("mi", Obj(<<Mem("1", L("null"))>>))>>), <<>>)
    /\ err = "nil"
    /\ DOMAIN values = {20}
    /\ values[20].k = "map"
    /\ \E kk \in DOMAIN values[20].v : IsNil(values[20].v[kk])

\* the entry points of the stub
StubOps == {"InvokeRpc", "InvokeRpcStream", "NewClientStream"}

\* the four kinds of method
Kinds == {"unary", "server-streaming", "client-streaming", "bidi-streaming"}

Kind(m) ==
    IF m.client /\ m.server THEN "bidi-streaming"
    ELSE IF m.client THEN "client-streaming"
    ELSE IF m.server THEN "server-streaming"
    ELSE "unary"

\* the kinds the specification gives to each entry point
Accepts ==
    [InvokeRpc |-> {"unary"}, InvokeRpcStream |-> {"server-streaming"},
     NewClientStream |-> {"client-streaming", "bidi-streaming"}]

\* the errors of the tests on the kind of the method
KindErrors == {"NotUnary", "NotServerStreaming", "NotClientStreaming"}

\* the first operation an entry point does on the connection
FirstOperation ==
    [InvokeRpc |-> "Invoke", InvokeRpcStream |-> "NewClientStream",
     NewClientStream |-> "NewClientStream"]

\* C14: every kind of method belongs to exactly one entry point; a call with
\* a method of another kind returns the error of the kind test, no value, and
\* does nothing on the connection; a call with a method of its kind passes
\* the kind test, and with a request of the method's input type its first
\* operation on the connection is done.
C14_KindDispatch ==
    /\ \A k \in Kinds : Cardinality({o \in StubOps : k \in Accepts[o]}) = 1
    /\ op \in StubOps =>
        /\ Kind(method) \notin Accepts[op] =>
            /\ ret.err \in KindErrors
            /\ ret.v.k = "nil"
            /\ conn = <<>>
            /\ ctx = "none"
        /\ Kind(method) \in Accepts[op] =>
            /\ ret.err \notin KindErrors
            /\ method.input = md => (conn # <<>> /\ Head(conn) = FirstOperation[op])

\* InvokeRpcStream called with a bidi-streaming method whose input type is the
\* type of the request: the kind error, nothing done on the connection
C14_Witness ==
    /\ op = "InvokeRpcStream"
    /\ Kind(method) = "bidi-streaming"
    /\ method.input = md
    /\ ret.err = "NotServerStreaming"
    /\ conn = <<>>

\* C17: when InvokeRpcStream returns an error after it derived the context,
\* the context is cancelled and no Stream is returned; when it returns no
\* error, one NewClientStream, one SendMsg and one CloseSend were done in this
\* order and a Stream is returned.
C17_StreamCancel ==
    op = "InvokeRpcStream" =>
        /\ (ret.err # "nil" /\ ctx # "none") => (ctx = "cancelled" /\ ret.v.k = "nil")
        /\ ret.err = "nil" =>
            /\ conn = <<"NewClientStream", "SendMsg", "CloseSend">>
            /\ ret.v.k = "Stream"

\* the paths of InvokeRpcStream on which SendMsg was called
CancelledAfterCreation ==
    (op = "InvokeRpcStream" /\ Len(conn) >= 2) =>
        /\ ret.err # "nil" => (ctx = "cancelled" /\ ret.v.k = "nil")
        /\ ret.err = "nil" =>
            /\ conn = <<"NewClientStream", "SendMsg", "CloseSend">>
            /\ ret.v.k = "Stream"
            /\ ctx = "derived"

\* grpc.NewClientStream failed: InvokeRpcStream returned its error and the
\* derived context is not cancelled
C17_Witness ==
    /\ op = "InvokeRpcStream"
    /\ conn = <<"NewClientStream">>
    /\ ret.err = "Unavailable"
    /\ ret.v.k = "nil"
    /\ ctx = "derived"

\* the tokens the reader holds or has handed out
Delivered == reader.polled \o IF reader.peeked THEN <<reader.current>> ELSE <<>>

\* C15: whenever hasNext was evaluated during a parse the reader held no
\* peeked token; and the tokens poll returned, followed by the token the
\* reader holds when it holds one, are the tokens the decoder returned, in
\* their order, each once.
C15_ReaderInSync ==
    Unmarshalled =>
        /\ ~reader.stale
        /\ Delivered = reader.read

\* {"ri":[1,null,2]}: hasNext was evaluated twice in the loop of unmarshalJson
\* and four times in the array loop, between the peeks of the field and of
\* its elements, never with a token held, and the eight tokens read were
\* polled
C15_Witness ==
    /\ op = "UnmarshalMergeJSON"
    /\ doc = Doc(Obj(<<Mem("ri", Arr(<<One, L("null"), N(<<2>>)>>))>>), <<>>)
    /\ err = "nil"
    /\ reader.asks = 6
    /\ ~reader.stale
    /\ ~reader.peeked
    /\ Len(reader.polled) = 8
    /\ reader.polled = reader.read

====
